---------------------------- MODULE Spec2Model ----------------------------
(***************************************************************************)
(* Model of the I/O filter registry, the load orchestrator, the session    *)
(* counter and the global-shift negotiation of                             *)
(* libs/qCC_io/FileIOFilter.cpp.                                           *)
(*                                                                         *)
(* Format identifiers ('file filter' strings) are TLA+ strings.  File      *)
(* names, extensions and entity names are sequences of one-character       *)
(* strings, so that QString::toUpper, QFileInfo's decomposition of a path  *)
(* and QString::replace are computed character by character.               *)
(***************************************************************************)
EXTENDS Integers, Sequences, FiniteSets, TLC

(***************************************************************************)
(* Bounds of the model.                                                    *)
(***************************************************************************)
\* number of filter instances that exist (the inputs of Register)
NumFilters == 4
\* the session counter is capped: at most MaxLoads filter calls between two resets
MaxLoads == 3
\* the threads that call LoadFromFile at the same time
NumThreads == 2

\* Shared(nullptr)
NULL == 0

Filters == 1..NumFilters
Threads == 1..NumThreads
\* the HandleGlobalShift calls that can be under way at the same time: one that
\* is inside ccGlobalShiftManager::Handle, and one made meanwhile
ShiftCallers == {"A", "B"}

VARIABLES
    s_ioFilters,        \* static FilterContainer s_ioFilters (insertion ordered)
    s_sessionCounter,   \* static unsigned s_sessionCounter
    loadParameters,     \* the caller's LoadParameters object
    call,               \* the last call made: its name, its arguments, what it
                        \* returned and did, and in call.log what it sent to
                        \* ccLog, in order, as <<severity, text, ...>>
    assertsEnabled,     \* build option: FALSE when NDEBUG is defined
    aborted,            \* an assert(false) has ended the process
    sizeofPointCoordinateType, \* build option: 4 (float) or 8 (double)
    loadCalls,          \* history: LoadFromFile calls made with a filter since the
                        \* last reset (or since start)
    filterCalls,        \* history: filter->loadFile calls made since the last reset
    shiftPersisted,     \* history: a HandleGlobalShift call has stored its shift
                        \* in loadParameters
    threads,            \* for each thread that runs LoadFromFile while other
                        \* threads do: where it stands in the function and its
                        \* local variables
    extraIncrements,    \* history: since the last reset (or since start) the
                        \* counter has been incremented by something else than
                        \* the loadFile calls counted in filterCalls
    shiftCalls          \* for each HandleGlobalShift call that can be under way:
                        \* where it stands and its local variables

vars == <<s_ioFilters, s_sessionCounter, loadParameters, call,
          assertsEnabled, aborted, sizeofPointCoordinateType,
          loadCalls, filterCalls, shiftPersisted, threads, extraIncrements,
          shiftCalls>>

\* the build options
build == <<assertsEnabled, sizeofPointCoordinateType>>

(***************************************************************************)
(* Strings.                                                                *)
(***************************************************************************)
Lower == <<"a","b","c","d","e","f","g","h","i","j","k","l","m",
           "n","o","p","q","r","s","t","u","v","w","x","y","z">>
Upper == <<"A","B","C","D","E","F","G","H","I","J","K","L","M",
           "N","O","P","Q","R","S","T","U","V","W","X","Y","Z">>

\* QChar::toUpper on the letters of the model
toUpperChar(c) ==
    IF \E i \in 1..Len(Lower) : Lower[i] = c
    THEN Upper[CHOOSE i \in 1..Len(Lower) : Lower[i] = c]
    ELSE c

\* QString::toUpper
toUpper(s) == [i \in 1..Len(s) |-> toUpperChar(s[i])]

\* QStringList::contains
contains(list, s) == \E i \in 1..Len(list) : list[i] = s

Range(seq) == {seq[i] : i \in 1..Len(seq)}

s_bin == <<"b","i","n">>
s_asc == <<"a","s","c">>
s_txt == <<"t","x","t">>
s_las == <<"l","a","s">>
s_xyz == <<"x","y","z">>

\* entity names
s_unnamed == <<"u","n","n","a","m","e","d">>
s_unnamed_cloud == <<"u","n","n","a","m","e","d","_","c","l","o","u","d">>
s_unnamed_unnamed == <<"u","n","n","a","m","e","d","_","u","n","n","a","m","e","d">>
s_cloud == <<"c","l","o","u","d">>
s_my_unnamed == <<"m","y"," ","u","n","n","a","m","e","d">>

\* paths
s_scan_asc == <<"s","c","a","n",".","a","s","c">>
s_data_scan_tar_bin == <<"/","d","a","t","a","/","s","c","a","n",".","t","a","r",".","b","i","n">>
s_missing_asc == <<"m","i","s","s","i","n","g",".","a","s","c">>
s_noext == <<"n","o","e","x","t">>
\* the working directory of the process, which QFileInfo::absolutePath resolves
\* relative paths against
s_cwd == <<"/","h","o","m","e">>

(***************************************************************************)
(* The filter instances.  A filter is known to FileIOFilter.cpp only by    *)
(* its virtual methods; the instances below are the inputs of the model.   *)
(*   1: imports and exports BIN                                            *)
(*   2: imports ASCII and TXT, exports ASCII                               *)
(*   3: imports LAS and the empty identifier, exports ASCII (as 2 does),   *)
(*      also loads .txt                                                    *)
(*   4: imports TXT (as 2 does), exports nothing                           *)
(*   others: import nothing, export BIN (as 1 does)                        *)
(***************************************************************************)
\* filter->getFileFilters(onImport)
getFileFilters(f, onImport) ==
    CASE f = 1 -> <<"BIN (*.bin)">>
      [] f = 2 -> IF onImport THEN <<"ASCII (*.asc)", "TXT (*.txt)">>
                              ELSE <<"ASCII (*.asc)">>
      [] f = 3 -> IF onImport THEN <<"LAS (*.las)", "">> ELSE <<"ASCII (*.asc)">>
      [] f = 4 -> IF onImport THEN <<"TXT (*.txt)">> ELSE <<>>
      [] OTHER -> IF onImport THEN <<>> ELSE <<"BIN (*.bin)">>

\* filter->getDefaultExtension()
getDefaultExtension(f) ==
    CASE f = 1 -> s_bin
      [] f = 2 -> s_asc
      [] f = 3 -> s_las
      [] f = 4 -> s_txt
      [] OTHER -> s_bin

\* filter->canLoadExtension(upperCaseExt)
canLoadExtension(f, upperCaseExt) ==
    CASE f = 1 -> upperCaseExt = toUpper(s_bin)
      [] f = 2 -> upperCaseExt \in {toUpper(s_asc), toUpper(s_txt)}
      [] f = 3 -> upperCaseExt \in {toUpper(s_las), toUpper(s_txt)}
      [] f = 4 -> upperCaseExt = toUpper(s_txt)
      [] OTHER -> FALSE

\* the format identifiers callers ask for
FileFilterStrings ==
    {"", "BIN (*.bin)", "ASCII (*.asc)", "TXT (*.txt)", "LAS (*.las)", "PLY (*.ply)"}

\* the extensions callers ask for
Extensions == {s_bin, s_txt, toUpper(s_txt), <<"T","x","t">>, s_las, s_xyz, <<>>}

(***************************************************************************)
(* Initial state: nothing registered, counter 0.                           *)
(***************************************************************************)
\* An unsigned has 32 bits.  Its value is held as two digits of 16 bits,
\* <<high, low>> for high * 2^16 + low, as the integers of TLC end at 2^31 - 1.
TwoTo16 == 65536
\* the unsigned of a number below 2^31
unsigned(n) == <<n \div TwoTo16, n % TwoTo16>>
\* 4294967295
UINT_MAX == <<TwoTo16 - 1, TwoTo16 - 1>>
\* u + 1 in unsigned arithmetic: UINT_MAX + 1 is 0
increment(u) ==
    IF u[2] + 1 < TwoTo16 THEN <<u[1], u[2] + 1>>
    ELSE <<(u[1] + 1) % TwoTo16, 0>>
\* u < n for a number n below 2^16
below(u, n) == u[1] = 0 /\ u[2] < n

\* CCVector3d values: the shifts and the points of the model
ZeroVector == <<0, 0, 0>>
ShiftVectors == {ZeroVector, <<-1000, 0, 0>>, <<0, -2000, 0>>}
Points == {<<1000, 0, 5>>, <<0, 2000, 5>>}

\* A HandleGlobalShift call that is not under way.  pc: "idle", the line the
\* call is about to run, or "Handle" when the call is inside
\* ccGlobalShiftManager::Handle; i: the coordinate of the CCVector3d that line
\* 445 or 464 copies next; P: the point, the first argument of Handle; reuse:
\* the fourth argument of Handle; Pshift,
\* preserveCoordinateShift: the caller's variables the call has references to;
\* applyAll: the local variable; result: what Handle returned; later: the call
\* began after a call had stored its shift in loadParameters.
idleShiftCall ==
    [pc |-> "idle", i |-> 0, P |-> ZeroVector, reuse |-> FALSE,
     Pshift |-> ZeroVector,
     preserveCoordinateShift |-> FALSE, applyAll |-> FALSE, result |-> FALSE,
     later |-> FALSE]

\* A thread that is in no call of the class.  pc: the line the thread is about to
\* run; direct: it has called IncreaseSesionCounter itself, not through
\* LoadFromFile; filename, filter: the arguments of the load it is in; reg: the value of
\* s_sessionCounter it has read and not stored yet; obtained, sessionCounter: line 197 has given it
\* this value; passed: the sessionStart its filter was given; sinceReset: its
\* call was made after the last ResetSesionCounter.
idleThread ==
    [pc |-> "idle", direct |-> FALSE, filename |-> <<>>, filter |-> NULL,
     reg |-> unsigned(0),
     obtained |-> FALSE, sessionCounter |-> unsigned(0), passed |-> FALSE,
     sinceReset |-> FALSE]

\* A pointer member of LoadParameters is a record: null, or the value it points to.
\* The LoadParameters of a caller that asks for no shift bookkeeping:
InitLoadParameters ==
    [sessionStart |-> FALSE,
     coordinatesShiftEnabled |-> [null |-> TRUE, value |-> FALSE],
     coordinatesShift |-> [null |-> TRUE, value |-> ZeroVector],
     preserveShiftOnSave |-> TRUE,
     shiftHandlingMode |-> "DIALOG_IF_NECESSARY"]

Init ==
    /\ s_ioFilters = <<>>
    /\ s_sessionCounter = unsigned(0)
    /\ loadParameters = InitLoadParameters
    /\ call = [op |-> "none", log |-> <<>>]
    /\ assertsEnabled \in BOOLEAN
    /\ aborted = FALSE
    /\ sizeofPointCoordinateType = 4
    /\ loadCalls = 0
    /\ filterCalls = 0
    /\ shiftPersisted = FALSE
    /\ threads = [t \in Threads |-> idleThread]
    /\ extraIncrements = FALSE
    /\ shiftCalls = [c \in ShiftCallers |-> idleShiftCall]

(***************************************************************************)
(* FileIOFilter::Register                                                  *)
(***************************************************************************)
\* FirstCollision with the loop left after the first identifier
FirstCollisionFirstOnly(fileFilters, otherFilters, i) ==
    IF Len(fileFilters) >= i /\ contains(otherFilters, fileFilters[i]) THEN i ELSE 0

\* the inner loop, lines 108-117: the first i with otherFilters.contains(fileFilters[i]),
\* 0 when the loop ends without a hit
RECURSIVE FirstCollision(_, _, _)
FirstCollision(fileFilters, otherFilters, i) ==
    IF i > Len(fileFilters) THEN 0
    ELSE IF contains(otherFilters, fileFilters[i]) THEN i
    ELSE FirstCollision(fileFilters, otherFilters, i + 1)

\* the loop over s_ioFilters, lines 96-122, from position it on
RECURSIVE RegisterLoop(_, _, _)
RegisterLoop(reg, filter, it) ==
    IF it > Len(reg) THEN [error |-> FALSE, log |-> <<>>]
    ELSE IF reg[it] = filter
         THEN [error |-> TRUE,
               log |-> << <<"Warning", "already registered">> >>]
    ELSE IF FirstCollision(getFileFilters(filter, TRUE),
                           getFileFilters(reg[it], TRUE), 1) # 0
         THEN [error |-> TRUE,
               log |-> << <<"Warning", "file filter already handled">> >>]
    ELSE RegisterLoop(reg, filter, it + 1)

Register(filter) ==
    /\ ~aborted
    /\ call' = IF filter = NULL
               THEN [op |-> "Register", filter |-> filter, error |-> TRUE,
                     log |-> <<>>]
               ELSE [op |-> "Register", filter |-> filter]
                    @@ RegisterLoop(s_ioFilters, filter, 1)
    /\ aborted' = (filter = NULL /\ assertsEnabled)
    /\ s_ioFilters' = IF call'.error THEN s_ioFilters
                      ELSE Append(s_ioFilters, filter)
    /\ UNCHANGED <<s_sessionCounter, loadParameters, build,
                   loadCalls, filterCalls, shiftPersisted, threads,
                   extraIncrements, shiftCalls>>

DoRegister == \E filter \in Filters \cup {NULL} : Register(filter)

(***************************************************************************)
(* FileIOFilter::UnregisterAll                                             *)
(***************************************************************************)
\* the range-for of lines 129-132 from position it on: the calls of
\* filter->unregister() in order, each with the number of filters s_ioFilters
\* holds while the hook runs
\* UnregisterLoop walking the container from its end
RECURSIVE UnregisterLoopReversed(_, _)
UnregisterLoopReversed(reg, it) ==
    IF it > Len(reg) THEN <<>>
    ELSE UnregisterLoopReversed(reg, it + 1)
         \o <<[filter |-> reg[it], registered |-> Len(reg)]>>

RECURSIVE UnregisterLoop(_, _)
UnregisterLoop(reg, it) ==
    IF it > Len(reg) THEN <<>>
    ELSE <<[filter |-> reg[it], registered |-> Len(reg)]>>
         \o UnregisterLoop(reg, it + 1)

UnregisterAll ==
    /\ ~aborted
    /\ call' = [op |-> "UnregisterAll",
                unregister |-> UnregisterLoop(s_ioFilters, 1), log |-> <<>>]
    /\ s_ioFilters' = <<>>
    /\ UNCHANGED <<s_sessionCounter, loadParameters, build, aborted,
                   loadCalls, filterCalls, shiftPersisted, threads,
                   extraIncrements, shiftCalls>>

(***************************************************************************)
(* FileIOFilter::GetFilter                                                 *)
(***************************************************************************)
RECURSIVE GetFilterLoop(_, _, _, _)
GetFilterLoop(reg, fileFilter, onImport, it) ==
    IF it > Len(reg) THEN NULL
    ELSE IF contains(getFileFilters(reg[it], onImport), fileFilter) THEN reg[it]
    ELSE GetFilterLoop(reg, fileFilter, onImport, it + 1)

GetFilter(fileFilter, onImport) ==
    IF fileFilter # ""
    THEN GetFilterLoop(s_ioFilters, fileFilter, onImport, 1)
    ELSE NULL

CallGetFilter ==
    \E fileFilter \in FileFilterStrings, onImport \in BOOLEAN :
        /\ ~aborted
        /\ call' = [op |-> "GetFilter", fileFilter |-> fileFilter,
                    onImport |-> onImport,
                    result |-> GetFilter(fileFilter, onImport), log |-> <<>>]
        /\ UNCHANGED <<s_ioFilters, s_sessionCounter, loadParameters,
                       build, aborted, loadCalls, filterCalls, shiftPersisted, threads,
                   extraIncrements, shiftCalls>>

(***************************************************************************)
(* FileIOFilter::FindBestFilterForExtension                                *)
(***************************************************************************)
RECURSIVE FindBestLoop(_, _, _)
FindBestLoop(reg, upperExt, it) ==
    IF it > Len(reg) THEN NULL
    ELSE IF canLoadExtension(reg[it], upperExt) THEN reg[it]
    ELSE FindBestLoop(reg, upperExt, it + 1)

\* FindBestFilterForExtension without the conversion to upper case
FindBestFilterForExtensionAsGiven(ext) ==
    FindBestLoop(s_ioFilters, ext, 1)

FindBestFilterForExtension(ext) ==
    FindBestLoop(s_ioFilters, toUpper(ext), 1)

CallFindBestFilterForExtension ==
    \E ext \in Extensions :
        /\ ~aborted
        /\ call' = [op |-> "FindBestFilterForExtension", ext |-> ext,
                    result |-> FindBestFilterForExtension(ext), log |-> <<>>]
        /\ UNCHANGED <<s_ioFilters, s_sessionCounter, loadParameters,
                       build, aborted, loadCalls, filterCalls, shiftPersisted, threads,
                   extraIncrements, shiftCalls>>

NextRegistry ==
    \/ DoRegister
    \/ UnregisterAll
    \/ CallGetFilter
    \/ CallFindBestFilterForExtension

SpecRegistry == Init /\ [][NextRegistry]_vars


(***************************************************************************)
(* QString and QFileInfo, as FileIOFilter.cpp uses them.                   *)
(***************************************************************************)
Max(S) == CHOOSE x \in S : \A y \in S : x >= y

\* QString::indexOf / lastIndexOf of one character, 0 when absent
FirstIndexOf(s, c) ==
    IF \E i \in 1..Len(s) : s[i] = c
    THEN CHOOSE i \in 1..Len(s) : s[i] = c /\ \A j \in 1..(i - 1) : s[j] # c
    ELSE 0
LastIndexOf(s, c) ==
    IF \E i \in 1..Len(s) : s[i] = c
    THEN Max({i \in 1..Len(s) : s[i] = c})
    ELSE 0

\* QString::startsWith
startsWith(s, prefix) ==
    Len(s) >= Len(prefix) /\ SubSeq(s, 1, Len(prefix)) = prefix

\* QString::replace(before, after): every occurrence, left to right
RECURSIVE replace(_, _, _)
replace(s, before, after) ==
    IF Len(s) < Len(before) \/ Len(before) = 0 THEN s
    ELSE IF SubSeq(s, 1, Len(before)) = before
         THEN after \o replace(SubSeq(s, Len(before) + 1, Len(s)), before, after)
    ELSE <<s[1]>> \o replace(Tail(s), before, after)

\* QFileInfo::fileName: what follows the last '/'
fileName(path) == SubSeq(path, LastIndexOf(path, "/") + 1, Len(path))

\* QFileInfo::baseName: the file name up to its first '.'
baseName(path) ==
    LET n == fileName(path)
        d == FirstIndexOf(n, ".")
    IN  IF d = 0 THEN n ELSE SubSeq(n, 1, d - 1)

\* QFileInfo::suffix: what follows the last '.' of the file name
suffix(path) ==
    LET n == fileName(path)
        d == LastIndexOf(n, ".")
    IN  IF d = 0 THEN <<>> ELSE SubSeq(n, d + 1, Len(n))

\* QFileInfo::absolutePath: the directory of the file, made absolute
absolutePath(path) ==
    LET sl == LastIndexOf(path, "/")
    IN  IF sl = 0 THEN s_cwd
        ELSE IF path[1] = "/"
             THEN (IF sl = 1 THEN <<"/">> ELSE SubSeq(path, 1, sl - 1))
        ELSE s_cwd \o <<"/">> \o SubSeq(path, 1, sl - 1)

\* the paths callers pass, and those of them that exist on the disk
FileNames == {s_scan_asc, s_data_scan_tar_bin, s_missing_asc, s_noext}
ExistingFiles == {s_scan_asc, s_data_scan_tar_bin, s_noext}

\* an existence check that every path passes
existsAlways(path) == TRUE

\* QFileInfo::exists
exists(path) == path \in ExistingFiles

(***************************************************************************)
(* CC_FILE_ERROR and FileIOFilter::DisplayErrorMessage                     *)
(***************************************************************************)
ErrorCodes ==
    {"CC_FERR_NO_ERROR", "CC_FERR_BAD_ARGUMENT", "CC_FERR_UNKNOWN_FILE",
     "CC_FERR_WRONG_FILE_TYPE", "CC_FERR_WRITING", "CC_FERR_READING",
     "CC_FERR_NO_SAVE", "CC_FERR_NO_LOAD", "CC_FERR_BAD_ENTITY_TYPE",
     "CC_FERR_CANCELED_BY_USER", "CC_FERR_NOT_ENOUGH_MEMORY",
     "CC_FERR_MALFORMED_FILE", "CC_FERR_CONSOLE_ERROR",
     "CC_FERR_BROKEN_DEPENDENCY_ERROR",
     "CC_FERR_FILE_WAS_WRITTEN_BY_UNKNOWN_PLUGIN",
     "CC_FERR_THIRD_PARTY_LIB_FAILURE", "CC_FERR_THIRD_PARTY_LIB_EXCEPTION",
     "CC_FERR_NOT_IMPLEMENTED"}

\* the switch of lines 364-422: the phrase of a code, "" where the function returns
\* without a message
errorStr(err) ==
    CASE err = "CC_FERR_NO_ERROR" -> ""
      [] err = "CC_FERR_BAD_ARGUMENT" -> "bad argument (internal)"
      [] err = "CC_FERR_UNKNOWN_FILE" -> "unknown file"
      [] err = "CC_FERR_WRONG_FILE_TYPE" -> "wrong file type (check header)"
      [] err = "CC_FERR_WRITING" -> "writing error (disk full/no access right?)"
      [] err = "CC_FERR_READING" -> "reading error (no access right?)"
      [] err = "CC_FERR_NO_SAVE" -> "nothing to save"
      [] err = "CC_FERR_NO_LOAD" -> "nothing to load"
      [] err = "CC_FERR_BAD_ENTITY_TYPE" -> "incompatible entity/file types"
      [] err = "CC_FERR_CANCELED_BY_USER" -> "process canceled by user"
      [] err = "CC_FERR_NOT_ENOUGH_MEMORY" -> "not enough memory"
      [] err = "CC_FERR_MALFORMED_FILE" -> "malformed file"
      [] err = "CC_FERR_BROKEN_DEPENDENCY_ERROR" ->
            "dependent entities missing (see Console)"
      [] err = "CC_FERR_FILE_WAS_WRITTEN_BY_UNKNOWN_PLUGIN" ->
            "the file was written by a plugin but none of the loaded plugins can deserialize it"
      [] err = "CC_FERR_THIRD_PARTY_LIB_FAILURE" ->
            "the third-party library in charge of saving/loading the file has failed to perform the operation"
      [] err = "CC_FERR_THIRD_PARTY_LIB_EXCEPTION" ->
            "the third-party library in charge of saving/loading the file has thrown an exception"
      [] err = "CC_FERR_NOT_IMPLEMENTED" -> "this function is not implemented yet!"
      [] err = "CC_FERR_CONSOLE_ERROR" -> "see console"
      [] OTHER -> ""

\* every message sent with ccLog::Error
DisplayErrorMessageAsError(err, action, filename) ==
    IF errorStr(err) = "" THEN <<>>
    ELSE << <<"Error", errorStr(err), action, filename>> >>

\* what DisplayErrorMessage sends to ccLog: <<severity, phrase, action, file name>>
DisplayErrorMessage(err, action, filename) ==
    IF errorStr(err) = "" THEN <<>>
    ELSE << <<IF err = "CC_FERR_CANCELED_BY_USER" THEN "Warning" ELSE "Error",
              errorStr(err), action, filename>> >>

(***************************************************************************)
(* The session counter.                                                    *)
(***************************************************************************)
\* the counter left as it is
IncreaseSesionCounterNot == s_sessionCounter

\* ++s_sessionCounter: the value stored and returned.  The counter is an unsigned:
\* from 4294967295 it goes to 0.
IncreaseSesionCounter == increment(s_sessionCounter)

\* the comparison of line 198, against 0 as if the counter were read before
\* its increment
isSessionStartBeforeIncrement(sessionCounter) == (sessionCounter = unsigned(0))

\* line 198: loadParameters.sessionStart = (sessionCounter == 1)
isSessionStart(sessionCounter) == (sessionCounter = unsigned(1))

ResetSesionCounter ==
    /\ ~aborted
    /\ s_sessionCounter' = unsigned(0)
    /\ call' = [op |-> "ResetSesionCounter", log |-> <<>>]
    /\ loadCalls' = 0
    /\ filterCalls' = 0
    /\ threads' = [t \in Threads |-> [threads[t] EXCEPT !.sinceReset = FALSE]]
    /\ extraIncrements' = FALSE
    /\ UNCHANGED <<s_ioFilters, loadParameters, build, aborted, shiftPersisted,
                   shiftCalls>>

\* FileIOFilter::IncreaseSesionCounter called by a caller of the class.  The
\* calls are capped: none is made when the counter has reached MaxLoads.
CallIncreaseSesionCounter ==
    /\ ~aborted
    /\ s_sessionCounter = UINT_MAX \/ below(s_sessionCounter, MaxLoads)
    /\ s_sessionCounter' = IncreaseSesionCounter
    /\ call' = [op |-> "IncreaseSesionCounter", value |-> IncreaseSesionCounter,
                log |-> <<>>]
    /\ extraIncrements' = TRUE
    /\ UNCHANGED <<s_ioFilters, loadParameters, build, aborted, loadCalls,
                   filterCalls, shiftPersisted, threads, shiftCalls>>

(***************************************************************************)
(* FileIOFilter::LoadFromFile(filename, loadParameters, filter, result)    *)
(***************************************************************************)
\* the lists of children a filter may have added to the container when
\* loadFile returns or throws
ChildLists ==
    {<<>>, <<s_unnamed, s_unnamed_cloud>>,
     <<s_unnamed_unnamed, s_cloud, s_my_unnamed>>}

\* the codes a loadFile that returns may return: success, the code logged as a
\* warning, and two codes logged as errors
LoadCodes ==
    {"CC_FERR_NO_ERROR", "CC_FERR_CANCELED_BY_USER", "CC_FERR_READING",
     "CC_FERR_CONSOLE_ERROR"}

\* the filters callers pass to LoadFromFile
LoadFilters == {NULL, 1, 2}

\* what filter->loadFile does: it adds children, then returns a code or throws
LoadOutcomes ==
    [thrown : {"none"}, code : LoadCodes, children : ChildLists]
    \cup [thrown : {"std::exception", "other"}, code : {"CC_FERR_NO_ERROR"},
          children : ChildLists]

\* a ccHObject* that is nullptr
nullptrContainer == [null |-> TRUE, name |-> <<>>, children |-> <<>>]
\* new ccHObject()
newContainer == [null |-> FALSE, name |-> <<>>, children |-> <<>>]
\* ccHObject::removeAllChildren
removeAllChildren(container) == [container EXCEPT !.children = <<>>]

\* the handler of the try block of lines 200-224 that catches what was thrown
HandlerStdOnly(thrown) ==
    CASE thrown = "none" -> "none"
      [] thrown = "std::exception" -> "catch (const std::exception&)"
      [] OTHER -> "uncaught"

Handler(thrown) ==
    CASE thrown = "none" -> "none"
      [] thrown = "std::exception" -> "catch (const std::exception&)"
      [] OTHER -> "catch (...)"

\* the replacement made in every child, whatever its name begins with
renamedChildAnywhere(name, filename) ==
    replace(name, s_unnamed, baseName(filename))

\* lines 242-249: the name a child is left with
renamedChild(name, filename) ==
    IF startsWith(name, s_unnamed)
    THEN replace(name, s_unnamed, baseName(filename))
    ELSE name

\* the post-processing that deletes the container whatever it holds
postProcessAlwaysNull(container, filename) == nullptrContainer

\* the post-processing without the else branch of lines 252-256
postProcessKeepEmpty(container, filename) ==
    [null |-> FALSE,
     name |-> IF Len(container.children) # 0
              THEN fileName(filename) \o <<" ", "(">> \o absolutePath(filename)
                   \o <<")">>
              ELSE container.name,
     children |-> [i \in 1..Len(container.children) |->
                      renamedChild(container.children[i], filename)]]

\* lines 235-256: the container LoadFromFile returns
postProcess(container, filename) ==
    IF Len(container.children) # 0
    THEN [null |-> FALSE,
          name |-> fileName(filename) \o <<" ", "(">> \o absolutePath(filename)
                   \o <<")">>,
          children |-> [i \in 1..Len(container.children) |->
                           renamedChild(container.children[i], filename)]]
    ELSE nullptrContainer

\* One call of LoadFromFile, as the record kept in call.  returned: the function
\* returned to its caller; result, container: what it gave back; invoked, passed:
\* whether filter->loadFile was called, and the sessionStart it was given;
\* code, thrown: the code loadFile returned or what it threw; added: the children
\* it had put in the container by then; removed: the children taken out by
\* removeAllChildren; escaped: the exception that left LoadFromFile.
LoadFromFileRun(filename, filter, outcome) ==
    IF filter = NULL
    THEN [op |-> "LoadFromFile", filename |-> filename, filter |-> filter,
          returned |-> ~assertsEnabled, result |-> "CC_FERR_CONSOLE_ERROR",
          container |-> nullptrContainer, invoked |-> FALSE, passed |-> FALSE,
          code |-> "not called", thrown |-> "none", added |-> <<>>,
          escaped |-> "none", removed |-> <<>>,
          log |-> << <<"Error", "[Load] Internal error (invalid input filter)">> >>]
    ELSE IF ~exists(filename)
    THEN [op |-> "LoadFromFile", filename |-> filename, filter |-> filter,
          returned |-> TRUE, result |-> "CC_FERR_CONSOLE_ERROR",
          container |-> nullptrContainer, invoked |-> FALSE, passed |-> FALSE,
          code |-> "not called", thrown |-> "none", added |-> <<>>,
          escaped |-> "none", removed |-> <<>>,
          log |-> << <<"Error", "[Load] File doesn't exist!">> >>]
    ELSE
    LET sessionCounter == IncreaseSesionCounter
        sessionStart == isSessionStart(sessionCounter)
        \* the container when loadFile returns or throws
        loaded == [newContainer EXCEPT !.children = outcome.children]
        handler == Handler(outcome.thrown)
    IN  IF handler = "uncaught"
        THEN [op |-> "LoadFromFile", filename |-> filename, filter |-> filter,
              returned |-> FALSE, result |-> "CC_FERR_NO_ERROR",
              container |-> loaded, invoked |-> TRUE, passed |-> sessionStart,
              code |-> "thrown", thrown |-> outcome.thrown,
              added |-> outcome.children, escaped |-> outcome.thrown,
              removed |-> <<>>, log |-> <<>>]
        ELSE
        LET caught == handler # "none"
            afterTry == IF caught THEN removeAllChildren(loaded) ELSE loaded
            result == IF caught THEN "CC_FERR_CONSOLE_ERROR" ELSE outcome.code
            caughtLog ==
                CASE handler = "catch (const std::exception&)" ->
                        << <<"Warning", "[I/O] CC has caught an exception">>,
                           <<"Warning", "[I/O] Exception: what()">> >>
                  [] handler = "catch (...)" ->
                        << <<"Warning", "[I/O] CC has caught an unhandled exception">> >>
                  [] OTHER -> <<>>
            outcomeLog ==
                IF result = "CC_FERR_NO_ERROR"
                THEN << <<"Print", "[I/O] File loaded successfully">> >>
                ELSE DisplayErrorMessage(result, "loading", baseName(filename))
        IN  [op |-> "LoadFromFile", filename |-> filename, filter |-> filter,
             returned |-> TRUE, result |-> result,
             container |-> postProcess(afterTry, filename),
             invoked |-> TRUE, passed |-> sessionStart,
             code |-> IF caught THEN "thrown" ELSE outcome.code,
             thrown |-> outcome.thrown, added |-> outcome.children,
             escaped |-> "none",
             removed |-> IF caught THEN loaded.children ELSE <<>>,
             log |-> caughtLog \o outcomeLog]

LoadFromFile(filename, filter, outcome) ==
    /\ ~aborted
    /\ loadCalls < MaxLoads
    /\ call' = LoadFromFileRun(filename, filter, outcome)
    /\ s_sessionCounter' = IF call'.invoked THEN IncreaseSesionCounter
                           ELSE s_sessionCounter
    /\ loadParameters' = IF call'.invoked
                         THEN [loadParameters EXCEPT !.sessionStart = call'.passed]
                         ELSE loadParameters
    /\ aborted' = (filter = NULL /\ assertsEnabled)
    /\ loadCalls' = IF filter # NULL THEN loadCalls + 1 ELSE loadCalls
    /\ filterCalls' = IF call'.invoked THEN filterCalls + 1 ELSE filterCalls
    /\ UNCHANGED <<s_ioFilters, build, shiftPersisted, threads,
                   extraIncrements, shiftCalls>>

DoLoadFromFile ==
    \E filename \in FileNames, filter \in LoadFilters, outcome \in LoadOutcomes :
        LoadFromFile(filename, filter, outcome)

\* the registries loads are made with: none registered yet, or filters 1, 2 and 3
\* registered in this order
RegistriesAtLoad == {<<>>, <<1, 2, 3>>}

\* The state loads begin in.  The counter is 0, or 4294967295: the value that
\* as many IncreaseSesionCounter calls since the start have left.
InitLoad ==
    /\ s_ioFilters \in RegistriesAtLoad
    /\ s_sessionCounter \in {unsigned(0), UINT_MAX}
    /\ loadParameters = InitLoadParameters
    /\ call = [op |-> "none", log |-> <<>>]
    /\ assertsEnabled \in BOOLEAN
    /\ aborted = FALSE
    /\ sizeofPointCoordinateType = 4
    /\ loadCalls = 0
    /\ filterCalls = 0
    /\ shiftPersisted = FALSE
    /\ threads = [t \in Threads |-> idleThread]
    /\ extraIncrements = (s_sessionCounter # unsigned(0))
    /\ shiftCalls = [c \in ShiftCallers |-> idleShiftCall]

NextLoad ==
    \/ ResetSesionCounter
    \/ CallIncreaseSesionCounter
    \/ DoLoadFromFile

SpecLoad == InitLoad /\ [][NextLoad]_vars

(***************************************************************************)
(* FileIOFilter::LoadFromFile(filename, loadParameters, result, fileFilter)*)
(***************************************************************************)
s_cloud_xyz == <<"c", "l", "o", "u", "d", ".", "x", "y", "z">>
\* the paths callers pass together with a format identifier
PathFileNames == FileNames \cup {s_cloud_xyz}
\* what loadFile does in these loads
PathOutcomes ==
    [thrown : {"none"}, code : {"CC_FERR_NO_ERROR", "CC_FERR_READING"},
     children : {<<>>, <<s_unnamed, s_unnamed_cloud>>}]
    \cup {[thrown |-> "other", code |-> "CC_FERR_NO_ERROR", children |-> <<>>]}

\* the resolution with the extension tried when the identifier finds no filter
resolveFilterWithFallback(filename, fileFilter) ==
    IF fileFilter # "" /\ GetFilter(fileFilter, TRUE) # NULL
    THEN [filter |-> GetFilter(fileFilter, TRUE), log |-> <<>>]
    ELSE IF suffix(filename) = <<>>
    THEN [filter |-> NULL,
          log |-> << <<"Error",
                       "[Load] Can't guess file format: no file extension">> >>]
    ELSE IF FindBestFilterForExtension(suffix(filename)) = NULL
    THEN [filter |-> NULL,
          log |-> << <<"Error",
                       "[Load] Can't guess file format: unhandled file extension",
                       suffix(filename)>> >>]
    ELSE [filter |-> FindBestFilterForExtension(suffix(filename)), log |-> <<>>]

\* lines 266-300: the filter the load is made with, NULL when none is found, and
\* what is sent to ccLog
resolveFilter(filename, fileFilter) ==
    IF fileFilter # ""
    THEN IF GetFilter(fileFilter, TRUE) = NULL
         THEN [filter |-> NULL,
               log |-> << <<"Error",
                            "[Load] Internal error: no I/O filter corresponds to filter",
                            fileFilter>> >>]
         ELSE [filter |-> GetFilter(fileFilter, TRUE), log |-> <<>>]
    ELSE IF suffix(filename) = <<>>
    THEN [filter |-> NULL,
          log |-> << <<"Error",
                       "[Load] Can't guess file format: no file extension">> >>]
    ELSE IF FindBestFilterForExtension(suffix(filename)) = NULL
    THEN [filter |-> NULL,
          log |-> << <<"Error",
                       "[Load] Can't guess file format: unhandled file extension",
                       suffix(filename)>> >>]
    ELSE [filter |-> FindBestFilterForExtension(suffix(filename)), log |-> <<>>]

\* One call of LoadFromFile with a format identifier, as the record kept in call:
\* the record of the call it makes of LoadFromFile with the filter found, and
\* the identifier it was given.
LoadFromFileWithFileFilterRun(filename, fileFilter, outcome) ==
    IF resolveFilter(filename, fileFilter).filter = NULL
    THEN [op |-> "LoadFromFile", fileFilter |-> fileFilter,
          filename |-> filename, filter |-> NULL,
          returned |-> TRUE, result |-> "CC_FERR_CONSOLE_ERROR",
          container |-> nullptrContainer, invoked |-> FALSE, passed |-> FALSE,
          code |-> "not called", thrown |-> "none", added |-> <<>>,
          escaped |-> "none", removed |-> <<>>,
          log |-> resolveFilter(filename, fileFilter).log]
    ELSE [fileFilter |-> fileFilter]
         @@ LoadFromFileRun(filename, resolveFilter(filename, fileFilter).filter,
                            outcome)

LoadFromFileWithFileFilter(filename, fileFilter, outcome) ==
    /\ ~aborted
    /\ loadCalls < MaxLoads
    /\ call' = LoadFromFileWithFileFilterRun(filename, fileFilter, outcome)
    /\ s_sessionCounter' = IF call'.invoked THEN IncreaseSesionCounter
                           ELSE s_sessionCounter
    /\ loadParameters' = IF call'.invoked
                         THEN [loadParameters EXCEPT !.sessionStart = call'.passed]
                         ELSE loadParameters
    /\ loadCalls' = IF call'.filter # NULL THEN loadCalls + 1 ELSE loadCalls
    /\ filterCalls' = IF call'.invoked THEN filterCalls + 1 ELSE filterCalls
    /\ UNCHANGED <<s_ioFilters, build, aborted, shiftPersisted, threads,
                   extraIncrements, shiftCalls>>

DoLoadFromFileWithFileFilter ==
    \E filename \in PathFileNames, fileFilter \in FileFilterStrings,
       outcome \in PathOutcomes :
        LoadFromFileWithFileFilter(filename, fileFilter, outcome)

InitLoadPath ==
    /\ InitLoad
    /\ assertsEnabled = FALSE

NextLoadPath ==
    \/ ResetSesionCounter
    \/ DoLoadFromFileWithFileFilter

SpecLoadPath == InitLoadPath /\ [][NextLoadPath]_vars

(***************************************************************************)
(* LoadFromFile called from several threads.  s_sessionCounter is a plain  *)
(* static unsigned and IncreaseSesionCounter is "return ++s_sessionCounter"*)
(* with no lock: threads that run it at the same time race on the counter. *)
(* The builds differ in what the racing increment does; the model has the  *)
(* outcomes of the usual code: a load of the counter, a store of the loaded*)
(* value plus one, and as the value returned either the value stored or the*)
(* counter loaded once more.  A load directly followed by its store is the *)
(* outcome of an increment that was not disturbed.                         *)
(***************************************************************************)
\* the files and filters the threads load with
ThreadFileNames == {s_scan_asc, s_missing_asc}
ThreadFilters == {NULL, 1}
\* what loadFile does in a thread
ThreadOutcomes ==
    {[thrown |-> "none", code |-> "CC_FERR_NO_ERROR",
      children |-> <<s_unnamed, s_unnamed_cloud>>],
     [thrown |-> "other", code |-> "CC_FERR_NO_ERROR", children |-> <<>>]}

\* lines 170-193: thread t enters LoadFromFile; with a null filter or a missing
\* file the call returns at once, otherwise the thread stands before line 197
ThreadEnter(t, filename, filter) ==
    /\ ~aborted
    /\ threads[t].pc = "idle"
    /\ loadCalls < MaxLoads
    /\ below(s_sessionCounter, MaxLoads)
    /\ IF filter = NULL \/ ~exists(filename)
       THEN /\ call' = LoadFromFileRun(filename, filter,
                                       CHOOSE o \in ThreadOutcomes : TRUE)
            /\ threads' = [threads EXCEPT ![t] =
                              [idleThread EXCEPT !.sinceReset = TRUE]]
       ELSE /\ call' = call
            /\ threads' = [threads EXCEPT ![t] =
                              [idleThread EXCEPT !.pc = "load counter",
                                                 !.filename = filename,
                                                 !.filter = filter,
                                                 !.sinceReset = TRUE]]
    /\ aborted' = (filter = NULL /\ assertsEnabled)
    /\ loadCalls' = IF filter # NULL THEN loadCalls + 1 ELSE loadCalls
    /\ UNCHANGED <<s_ioFilters, s_sessionCounter, loadParameters, build,
                   filterCalls, shiftPersisted, extraIncrements,
                   shiftCalls>>

\* lines 59-60: thread t calls IncreaseSesionCounter itself
ThreadEnterIncrease(t) ==
    /\ ~aborted
    /\ threads[t].pc = "idle"
    /\ loadCalls < MaxLoads
    /\ below(s_sessionCounter, MaxLoads)
    /\ threads' = [threads EXCEPT ![t] =
                      [idleThread EXCEPT !.pc = "load counter",
                                         !.direct = TRUE]]
    /\ UNCHANGED <<s_ioFilters, s_sessionCounter, loadParameters, call, build,
                   aborted, loadCalls, filterCalls, shiftPersisted,
                   extraIncrements, shiftCalls>>

\* line 61, first half of ++s_sessionCounter: the counter is loaded.  The
\* counter is capped: no thread goes on to increment it past MaxLoads.
ThreadLoadCounter(t) ==
    /\ ~aborted
    /\ threads[t].pc = "load counter"
    /\ below(s_sessionCounter, MaxLoads)
    /\ threads' = [threads EXCEPT ![t].reg = s_sessionCounter,
                                  ![t].pc = "store counter"]
    /\ UNCHANGED <<s_ioFilters, s_sessionCounter, loadParameters, call, build,
                   aborted, loadCalls, filterCalls, shiftPersisted, extraIncrements,
                   shiftCalls>>

\* line 61, second half: the value loaded plus one is stored; the value returned
\* is the one stored (reload = FALSE) or is loaded from the counter next
ThreadStoreCounter(t, reload) ==
    /\ ~aborted
    /\ threads[t].pc = "store counter"
    /\ s_sessionCounter' = increment(threads[t].reg)
    /\ threads' = IF reload
                  THEN [threads EXCEPT ![t].pc = "reload counter",
                                       ![t].reg = unsigned(0)]
                  ELSE [threads EXCEPT ![t].pc = "return counter",
                                       ![t].reg = unsigned(0),
                                       ![t].sessionCounter = increment(threads[t].reg)]
    /\ extraIncrements' = (extraIncrements \/ threads[t].direct)
    /\ UNCHANGED <<s_ioFilters, loadParameters, call, build, aborted,
                   loadCalls, filterCalls, shiftPersisted, shiftCalls>>

\* line 61, return: the value of the counter is loaded as the value returned
ThreadReloadCounter(t) ==
    /\ ~aborted
    /\ threads[t].pc = "reload counter"
    /\ threads' = [threads EXCEPT ![t].pc = "return counter",
                                  ![t].sessionCounter = s_sessionCounter]
    /\ UNCHANGED <<s_ioFilters, s_sessionCounter, loadParameters, call, build,
                   aborted, loadCalls, filterCalls, shiftPersisted, extraIncrements,
                   shiftCalls>>

\* line 61, the return: a thread that called IncreaseSesionCounter itself has
\* its value; a thread in LoadFromFile has it as sessionCounter at line 197
ThreadReturnCounter(t) ==
    /\ ~aborted
    /\ threads[t].pc = "return counter"
    /\ IF threads[t].direct
       THEN /\ call' = [op |-> "IncreaseSesionCounter",
                        value |-> threads[t].sessionCounter, log |-> <<>>]
            /\ threads' = [threads EXCEPT ![t].pc = "idle",
                                          ![t].direct = FALSE]
       ELSE /\ call' = call
            /\ threads' = [threads EXCEPT ![t].pc = "loadFile",
                                          ![t].obtained = TRUE]
    /\ UNCHANGED <<s_ioFilters, s_sessionCounter, loadParameters, build,
                   aborted, loadCalls, filterCalls, shiftPersisted,
                   extraIncrements, shiftCalls>>

\* lines 198-258: the thread passes sessionStart to loadFile and returns.  Its
\* loadParameters are its caller's own, not the variable loadParameters.
ThreadLoadFile(t, outcome) ==
    /\ ~aborted
    /\ threads[t].pc = "loadFile"
    /\ call' = [LoadFromFileRun(threads[t].filename, threads[t].filter, outcome)
                   EXCEPT !.passed = isSessionStart(threads[t].sessionCounter)]
    /\ threads' = [threads EXCEPT ![t].pc = "idle",
                                  ![t].filename = <<>>,
                                  ![t].filter = NULL,
                                  ![t].passed = call'.passed]
    /\ filterCalls' = filterCalls + 1
    /\ UNCHANGED <<s_ioFilters, s_sessionCounter, loadParameters, build,
                   aborted, loadCalls, shiftPersisted, extraIncrements,
                   shiftCalls>>

InitThreads ==
    /\ Init
    /\ assertsEnabled = FALSE

NextThreads ==
    \/ ResetSesionCounter
    \/ \E t \in Threads : ThreadEnterIncrease(t)
    \/ \E t \in Threads : ThreadReturnCounter(t)
    \/ \E t \in Threads, filename \in ThreadFileNames, filter \in ThreadFilters :
           ThreadEnter(t, filename, filter)
    \/ \E t \in Threads : ThreadLoadCounter(t)
    \/ \E t \in Threads, reload \in BOOLEAN : ThreadStoreCounter(t, reload)
    \/ \E t \in Threads : ThreadReloadCounter(t)
    \/ \E t \in Threads, outcome \in ThreadOutcomes : ThreadLoadFile(t, outcome)

SpecThreads == InitThreads /\ [][NextThreads]_vars

(***************************************************************************)
(* FileIOFilter::SaveToFile(entities, filename, parameters, filter) and    *)
(* FileIOFilter::SaveToFile(entities, filename, parameters, fileFilter)    *)
(***************************************************************************)
\* the destination paths callers save to
s_out == <<"o", "u", "t">>
s_out_bin == <<"o", "u", "t", ".", "b", "i", "n">>
s_dv_out == <<"/", "d", ".", "v", "/", "o", "u", "t">>
SaveFileNames == {<<>>, s_out, s_out_bin, s_dv_out}

\* the filters callers pass to SaveToFile
SaveFilters == {NULL, 1, 2}

\* What the filter does during a save: getDefaultExtension returns or throws,
\* and saveToFile returns a code or throws.
SaveOutcomes ==
    [extension : {"returned"}, thrown : {"none"}, code : ErrorCodes]
    \cup [extension : {"returned"}, thrown : {"std::exception", "other"},
          code : {"CC_FERR_NO_ERROR"}]
    \cup [extension : {"thrown"}, thrown : {"none"}, code : {"CC_FERR_NO_ERROR"}]

\* the test of line 310 without its filter part
badArgumentFilterUnchecked(entitiesNull, filename, filter) ==
    entitiesNull \/ filename = <<>>

\* line 310: !entities || filename.isEmpty() || !filter
badArgument(entitiesNull, filename, filter) ==
    entitiesNull \/ filename = <<>> \/ filter = NULL

\* lines 314-316: the file name passed to saveToFile
completeFileName(filename, filter) ==
    IF suffix(filename) = <<>>
    THEN filename \o <<".">> \o getDefaultExtension(filter)
    ELSE filename

\* One call of SaveToFile with a filter, as the record kept in call.  by: the
\* overload the caller called; returned: the function returned to its caller;
\* invoked: the number of filter->saveToFile calls made; passed: the file name
\* given to saveToFile; thrown: what the filter threw and from where; escaped:
\* the exception left SaveToFile.
SaveToFileRun(entitiesNull, filename, filter, outcome) ==
    IF badArgument(entitiesNull, filename, filter)
    THEN [op |-> "SaveToFile", by |-> "filter", entitiesNull |-> entitiesNull,
          filename |-> filename, filter |-> filter, fileFilter |-> "",
          returned |-> TRUE, result |-> "CC_FERR_BAD_ARGUMENT", invoked |-> 0,
          passed |-> <<>>, code |-> "not called", thrown |-> "none",
          escaped |-> FALSE, log |-> <<>>]
    ELSE IF suffix(filename) = <<>> /\ outcome.extension = "thrown"
    THEN [op |-> "SaveToFile", by |-> "filter", entitiesNull |-> entitiesNull,
          filename |-> filename, filter |-> filter, fileFilter |-> "",
          returned |-> FALSE, result |-> "none", invoked |-> 0,
          passed |-> <<>>, code |-> "not called",
          thrown |-> "by getDefaultExtension", escaped |-> TRUE, log |-> <<>>]
    ELSE
    LET caught == outcome.thrown # "none"
        result == IF caught THEN "CC_FERR_CONSOLE_ERROR" ELSE outcome.code
    IN  [op |-> "SaveToFile", by |-> "filter", entitiesNull |-> entitiesNull,
         filename |-> filename, filter |-> filter, fileFilter |-> "",
         returned |-> TRUE, result |-> result, invoked |-> 1,
         passed |-> completeFileName(filename, filter),
         code |-> IF caught THEN "thrown" ELSE outcome.code,
         thrown |-> IF caught THEN "by saveToFile" ELSE "none",
         escaped |-> FALSE,
         log |-> (IF caught
                  THEN << <<"Warning",
                            "[I/O] CC has caught an unhandled exception while saving file",
                            filename>> >>
                  ELSE <<>>)
                 \o (IF result = "CC_FERR_NO_ERROR"
                     THEN << <<"Print", "[I/O] File saved successfully",
                               filename>> >>
                     ELSE DisplayErrorMessage(result, "saving", filename))]

SaveToFile(entitiesNull, filename, filter, outcome) ==
    /\ ~aborted
    /\ call' = SaveToFileRun(entitiesNull, filename, filter, outcome)
    /\ UNCHANGED <<s_ioFilters, s_sessionCounter, loadParameters, build, aborted,
                   loadCalls, filterCalls, shiftPersisted, threads,
                   extraIncrements, shiftCalls>>

DoSaveToFile ==
    \E entitiesNull \in BOOLEAN, filename \in SaveFileNames,
       filter \in SaveFilters, outcome \in SaveOutcomes :
        SaveToFile(entitiesNull, filename, filter, outcome)

\* lines 341-357: one call of SaveToFile with a format identifier
SaveToFileWithFileFilterRun(entitiesNull, filename, fileFilter, outcome) ==
    IF fileFilter = ""
    THEN [op |-> "SaveToFile", by |-> "fileFilter", entitiesNull |-> entitiesNull,
          filename |-> filename, filter |-> NULL, fileFilter |-> fileFilter,
          returned |-> TRUE, result |-> "CC_FERR_BAD_ARGUMENT", invoked |-> 0,
          passed |-> <<>>, code |-> "not called", thrown |-> "none",
          escaped |-> FALSE, log |-> <<>>]
    ELSE IF GetFilter(fileFilter, FALSE) = NULL
    THEN [op |-> "SaveToFile", by |-> "fileFilter", entitiesNull |-> entitiesNull,
          filename |-> filename, filter |-> NULL, fileFilter |-> fileFilter,
          returned |-> TRUE, result |-> "CC_FERR_UNKNOWN_FILE", invoked |-> 0,
          passed |-> <<>>, code |-> "not called", thrown |-> "none",
          escaped |-> FALSE,
          log |-> << <<"Error",
                       "[Load] Internal error: no filter corresponds to filter",
                       fileFilter>> >>]
    ELSE [SaveToFileRun(entitiesNull, filename, GetFilter(fileFilter, FALSE),
                        outcome)
             EXCEPT !.by = "fileFilter", !.fileFilter = fileFilter]

SaveToFileWithFileFilter(entitiesNull, filename, fileFilter, outcome) ==
    /\ ~aborted
    /\ call' = SaveToFileWithFileFilterRun(entitiesNull, filename, fileFilter,
                                           outcome)
    /\ UNCHANGED <<s_ioFilters, s_sessionCounter, loadParameters, build, aborted,
                   loadCalls, filterCalls, shiftPersisted, threads,
                   extraIncrements, shiftCalls>>

DoSaveToFileWithFileFilter ==
    \E entitiesNull \in BOOLEAN, filename \in SaveFileNames,
       fileFilter \in FileFilterStrings, outcome \in SaveOutcomes :
        SaveToFileWithFileFilter(entitiesNull, filename, fileFilter, outcome)

InitSave ==
    /\ InitLoad
    /\ assertsEnabled = FALSE

NextSave ==
    \/ DoSaveToFile
    \/ DoSaveToFileWithFileFilter

SpecSave == InitSave /\ [][NextSave]_vars

(***************************************************************************)
(* Loads and saves whose filter returns any code of CC_FILE_ERROR.         *)
(***************************************************************************)
MessageLoadOutcomes ==
    [thrown : {"none"}, code : ErrorCodes,
     children : {<<>>, <<s_unnamed, s_unnamed_cloud>>}]
    \cup [thrown : {"std::exception", "other"}, code : {"CC_FERR_NO_ERROR"},
          children : {<<>>}]

NextMessages ==
    \/ ResetSesionCounter
    \/ \E filename \in {s_scan_asc, s_missing_asc},
          outcome \in MessageLoadOutcomes :
           LoadFromFile(filename, 1, outcome)
    \/ \E filename \in {s_out, s_out_bin}, outcome \in SaveOutcomes :
           SaveToFile(FALSE, filename, 2, outcome)

SpecMessages == InitSave /\ [][NextMessages]_vars

(***************************************************************************)
(* FileIOFilter::HandleGlobalShift                                         *)
(***************************************************************************)
\* What ccGlobalShiftManager::Handle answers: its return value and what it leaves
\* in its output slots Pshift, preserveCoordinateShift and applyAll.
HandleAnswers ==
    [result : BOOLEAN, Pshift : ShiftVectors, preserveCoordinateShift : BOOLEAN,
     applyAll : BOOLEAN]

\* line 442
shiftAlreadyEnabled ==
    /\ ~loadParameters.coordinatesShiftEnabled.null
    /\ loadParameters.coordinatesShiftEnabled.value
    /\ ~loadParameters.coordinatesShift.null

\* One call of HandleGlobalShift by caller c that has returned, as the record
\* kept in call, made from what the call holds when it returns.  handled: Handle
\* was called; reuse: the fourth argument it was given; Pshift,
\* preserveCoordinateShift: the caller's variables on return; persisted: the call
\* returns from line 468 after lines 463-465; later: the call began after a call
\* had stored its shift.
HandleGlobalShiftRun(c, locals) ==
    [op |-> "HandleGlobalShift", by |-> c, P |-> locals.P,
     handled |-> sizeofPointCoordinateType < 8,
     reuse |-> sizeofPointCoordinateType < 8 /\ locals.reuse,
     Pshift |-> locals.Pshift,
     preserveCoordinateShift |-> locals.preserveCoordinateShift,
     applyAll |-> locals.applyAll,
     persisted |-> locals.pc = "line 465",
     result |-> locals.result,
     later |-> locals.later,
     log |-> <<>>]

\* the record kept in call while the call of caller c is under way
HandleGlobalShiftUnderWay(c) ==
    [op |-> "HandleGlobalShift under way", by |-> c, log |-> <<>>]

\* lines 468 and 471: the call of caller c returns
HandleGlobalShiftReturn(c, locals) ==
    /\ call' = HandleGlobalShiftRun(c, locals)
    /\ shiftCalls' = [shiftCalls EXCEPT ![c] = idleShiftCall]
    /\ shiftPersisted' = (shiftPersisted \/ call'.persisted)

\* lines 449-453: applyAll = false and, with a PointCoordinateType of less than
\* 8 bytes, the call of ccGlobalShiftManager::Handle, which may wait for the user
\* or run another HandleGlobalShift call; otherwise line 450 stops at its first
\* operand and the call returns false at line 471
HandleGlobalShiftLine449(c, locals) ==
    IF sizeofPointCoordinateType < 8
    THEN /\ shiftCalls' = [shiftCalls EXCEPT ![c] =
                              [locals EXCEPT !.pc = "Handle", !.i = 0]]
         /\ call' = HandleGlobalShiftUnderWay(c)
         /\ shiftPersisted' = shiftPersisted
    ELSE HandleGlobalShiftReturn(c, [locals EXCEPT !.i = 0])

\* The function holds no lock: each read and each store of what the pointers of
\* loadParameters point to, and of preserveShiftOnSave, is a step of its own that
\* the steps of other calls may separate (a CCVector3d is copied coordinate by
\* coordinate).

\* line 442: caller c calls HandleGlobalShift and *coordinatesShiftEnabled is
\* read
HandleGlobalShift(c, P, PshiftIn, preserveIn, useInputCoordinatesShiftIfPossible) ==
    LET locals ==
          [idleShiftCall EXCEPT
              !.P = P,
              !.reuse = shiftAlreadyEnabled \/ useInputCoordinatesShiftIfPossible,
              !.Pshift = PshiftIn,
              !.preserveCoordinateShift = preserveIn,
              !.later = shiftPersisted]
    IN  /\ ~aborted
        /\ shiftCalls[c].pc = "idle"
        /\ IF shiftAlreadyEnabled
           THEN /\ shiftCalls' = [shiftCalls EXCEPT ![c] =
                                     [locals EXCEPT !.pc = "line 445", !.i = 1]]
                /\ call' = HandleGlobalShiftUnderWay(c)
                /\ shiftPersisted' = shiftPersisted
           ELSE HandleGlobalShiftLine449(c, locals)
        /\ UNCHANGED <<s_ioFilters, s_sessionCounter, loadParameters, build,
                       aborted, loadCalls, filterCalls, threads, extraIncrements>>

\* line 445, Pshift = *loadParameters.coordinatesShift: one coordinate is read
HandleGlobalShiftLine445(c) ==
    LET i == shiftCalls[c].i
        locals == [shiftCalls[c] EXCEPT
                      !.Pshift[i] = loadParameters.coordinatesShift.value[i]]
    IN  /\ ~aborted
        /\ shiftCalls[c].pc = "line 445"
        /\ shiftCalls' = [shiftCalls EXCEPT ![c] =
                             IF i < 3 THEN [locals EXCEPT !.i = i + 1]
                             ELSE [locals EXCEPT !.pc = "line 446", !.i = 0]]
        /\ call' = HandleGlobalShiftUnderWay(c)
        /\ UNCHANGED <<s_ioFilters, s_sessionCounter, loadParameters, build,
                       aborted, loadCalls, filterCalls, shiftPersisted, threads,
                       extraIncrements>>

\* line 446: preserveShiftOnSave is read; the call goes on to line 449
HandleGlobalShiftLine446(c) ==
    /\ ~aborted
    /\ shiftCalls[c].pc = "line 446"
    /\ HandleGlobalShiftLine449(c,
           [shiftCalls[c] EXCEPT
               !.preserveCoordinateShift = loadParameters.preserveShiftOnSave])
    /\ UNCHANGED <<s_ioFilters, s_sessionCounter, loadParameters, build,
                   aborted, loadCalls, filterCalls, threads, extraIncrements>>

\* lines 454-461 with lines 463-465 run whenever Handle returns true
HandleGlobalShiftAfterHandleAlwaysStores(c, answer) ==
    LET locals == [shiftCalls[c] EXCEPT
                      !.Pshift = answer.Pshift,
                      !.preserveCoordinateShift = answer.preserveCoordinateShift,
                      !.applyAll = answer.applyAll,
                      !.result = answer.result]
    IN  /\ ~aborted
        /\ shiftCalls[c].pc = "Handle"
        /\ IF /\ answer.result
              /\ ~loadParameters.coordinatesShiftEnabled.null
              /\ ~loadParameters.coordinatesShift.null
           THEN /\ shiftCalls' = [shiftCalls EXCEPT ![c] =
                                     [locals EXCEPT !.pc = "line 463"]]
                /\ call' = HandleGlobalShiftUnderWay(c)
                /\ shiftPersisted' = shiftPersisted
           ELSE HandleGlobalShiftReturn(c, locals)
        /\ UNCHANGED <<s_ioFilters, s_sessionCounter, loadParameters, build,
                       aborted, loadCalls, filterCalls, threads, extraIncrements>>

\* lines 454-461: Handle returns to caller c with its answer in Pshift,
\* preserveCoordinateShift and applyAll; the call returns false (line 471) or
\* true (line 468), or goes on to store the shift
HandleGlobalShiftAfterHandle(c, answer) ==
    LET locals == [shiftCalls[c] EXCEPT
                      !.Pshift = answer.Pshift,
                      !.preserveCoordinateShift = answer.preserveCoordinateShift,
                      !.applyAll = answer.applyAll,
                      !.result = answer.result]
    IN  /\ ~aborted
        /\ shiftCalls[c].pc = "Handle"
        /\ IF /\ answer.result
              /\ answer.applyAll
              /\ ~loadParameters.coordinatesShiftEnabled.null
              /\ ~loadParameters.coordinatesShift.null
           THEN /\ shiftCalls' = [shiftCalls EXCEPT ![c] =
                                     [locals EXCEPT !.pc = "line 463"]]
                /\ call' = HandleGlobalShiftUnderWay(c)
                /\ shiftPersisted' = shiftPersisted
           ELSE HandleGlobalShiftReturn(c, locals)
        /\ UNCHANGED <<s_ioFilters, s_sessionCounter, loadParameters, build,
                       aborted, loadCalls, filterCalls, threads, extraIncrements>>

\* line 463: *loadParameters.coordinatesShiftEnabled = true
HandleGlobalShiftLine463(c) ==
    /\ ~aborted
    /\ shiftCalls[c].pc = "line 463"
    /\ loadParameters' =
          [loadParameters EXCEPT !.coordinatesShiftEnabled.value = TRUE]
    /\ shiftCalls' = [shiftCalls EXCEPT ![c].pc = "line 464", ![c].i = 1]
    /\ call' = HandleGlobalShiftUnderWay(c)
    /\ UNCHANGED <<s_ioFilters, s_sessionCounter, build, aborted, loadCalls,
                   filterCalls, shiftPersisted, threads, extraIncrements>>

\* line 464, *loadParameters.coordinatesShift = Pshift: one coordinate is stored
HandleGlobalShiftLine464(c) ==
    LET i == shiftCalls[c].i
    IN  /\ ~aborted
        /\ shiftCalls[c].pc = "line 464"
        /\ loadParameters' =
              [loadParameters EXCEPT
                  !.coordinatesShift.value[i] = shiftCalls[c].Pshift[i]]
        /\ shiftCalls' = IF i < 3
                         THEN [shiftCalls EXCEPT ![c].i = i + 1]
                         ELSE [shiftCalls EXCEPT ![c].pc = "line 465", ![c].i = 0]
        /\ call' = HandleGlobalShiftUnderWay(c)
        /\ UNCHANGED <<s_ioFilters, s_sessionCounter, build, aborted, loadCalls,
                       filterCalls, shiftPersisted, threads, extraIncrements>>

\* lines 465-468: preserveShiftOnSave = preserveCoordinateShift; return true
HandleGlobalShiftLine465(c) ==
    /\ ~aborted
    /\ shiftCalls[c].pc = "line 465"
    /\ loadParameters' =
          [loadParameters EXCEPT
              !.preserveShiftOnSave = shiftCalls[c].preserveCoordinateShift]
    /\ HandleGlobalShiftReturn(c, shiftCalls[c])
    /\ UNCHANGED <<s_ioFilters, s_sessionCounter, build, aborted, loadCalls,
                   filterCalls, threads, extraIncrements>>

DoHandleGlobalShift ==
    \E c \in ShiftCallers, P \in Points, preserveIn \in BOOLEAN,
       useInputCoordinatesShiftIfPossible \in BOOLEAN :
        HandleGlobalShift(c, P, ZeroVector, preserveIn,
                          useInputCoordinatesShiftIfPossible)

DoHandleGlobalShiftAfterHandle ==
    \E c \in ShiftCallers, answer \in HandleAnswers :
        HandleGlobalShiftAfterHandle(c, answer)

\* The LoadParameters a caller builds for a session: each of the two pointers is
\* null or points to a variable of the caller, which holds no shift yet or a
\* shift the caller has set beforehand.
InitShift ==
    /\ s_ioFilters = <<>>
    /\ s_sessionCounter = unsigned(0)
    /\ \E enabledNull \in BOOLEAN, shiftNull \in BOOLEAN,
          enabled \in BOOLEAN, shift \in ShiftVectors :
          loadParameters =
              [InitLoadParameters EXCEPT
                  !.coordinatesShiftEnabled =
                      [null |-> enabledNull, value |-> ~enabledNull /\ enabled],
                  !.coordinatesShift =
                      [null |-> shiftNull,
                       value |-> IF shiftNull \/ enabledNull \/ ~enabled
                                 THEN ZeroVector ELSE shift]]
    /\ call = [op |-> "none", log |-> <<>>]
    /\ assertsEnabled = FALSE
    /\ aborted = FALSE
    /\ sizeofPointCoordinateType \in {4, 8}
    /\ loadCalls = 0
    /\ filterCalls = 0
    /\ shiftPersisted = FALSE
    /\ threads = [t \in Threads |-> idleThread]
    /\ extraIncrements = FALSE
    /\ shiftCalls = [c \in ShiftCallers |-> idleShiftCall]

NextShift ==
    \/ DoHandleGlobalShift
    \/ \E c \in ShiftCallers : HandleGlobalShiftLine445(c)
    \/ \E c \in ShiftCallers : HandleGlobalShiftLine446(c)
    \/ DoHandleGlobalShiftAfterHandle
    \/ \E c \in ShiftCallers : HandleGlobalShiftLine463(c)
    \/ \E c \in ShiftCallers : HandleGlobalShiftLine464(c)
    \/ \E c \in ShiftCallers : HandleGlobalShiftLine465(c)

SpecShift == InitShift /\ [][NextShift]_vars

(***************************************************************************)
(* Properties of the registry.                                             *)
(***************************************************************************)
ImportIds(f) == Range(getFileFilters(f, TRUE))
ExportIds(f) == Range(getFileFilters(f, FALSE))
Min(S) == CHOOSE x \in S : \A y \in S : x <= y

\* C1: after any sequence of Register and UnregisterAll calls, no two distinct
\* filters of the registry share a format identifier that either of them claims
\* for import or for export, and no filter is held more than once.
C1_UniqueIdentifiers ==
    \A i, j \in 1..Len(s_ioFilters) :
        i # j =>
            /\ s_ioFilters[i] # s_ioFilters[j]
            /\ (ImportIds(s_ioFilters[i]) \cup ExportIds(s_ioFilters[i]))
               \cap (ImportIds(s_ioFilters[j]) \cup ExportIds(s_ioFilters[j])) = {}

\* C2: a Register call with a non-null filter leaves s_ioFilters as it was when
\* the filter is already held or one of its import identifiers is an import
\* identifier of a held filter; otherwise it appends the filter at the end.
C2_RegisterEffect ==
    [][ (call'.op = "Register" /\ call'.filter # NULL) =>
          IF \/ call'.filter \in Range(s_ioFilters)
             \/ \E g \in Range(s_ioFilters) :
                    ImportIds(call'.filter) \cap ImportIds(g) # {}
          THEN s_ioFilters' = s_ioFilters
          ELSE s_ioFilters' = Append(s_ioFilters, call'.filter) ]_vars

\* C2 witness: a filter that is not held was refused by a registry of two
\* filters, its second import identifier being the one already claimed.
C2_Witness ==
    /\ call.op = "Register"
    /\ call.filter = 2
    /\ Len(s_ioFilters) = 2
    /\ call.filter \notin Range(s_ioFilters)
    /\ call.log # <<>>

\* C3: FindBestFilterForExtension(ext) returns the earliest registered filter
\* whose canLoadExtension accepts the upper-cased ext, GetFilter(id, onImport)
\* the earliest registered filter whose list selected by onImport contains id;
\* both return null when no filter matches, GetFilter also for the empty id.
C3_FirstMatchWins ==
    /\ call.op = "FindBestFilterForExtension" =>
         LET m == {i \in 1..Len(s_ioFilters) :
                     canLoadExtension(s_ioFilters[i], toUpper(call.ext))}
         IN  call.result = IF m = {} THEN NULL ELSE s_ioFilters[Min(m)]
    /\ call.op = "GetFilter" =>
         LET m == {i \in 1..Len(s_ioFilters) :
                     call.fileFilter \in
                         Range(getFileFilters(s_ioFilters[i], call.onImport))}
         IN  call.result = IF m = {} \/ call.fileFilter = "" THEN NULL
                           ELSE s_ioFilters[Min(m)]

\* C3 witness: a lower-case extension was looked up that the second and the
\* third registered filter can both load; the second registered was returned.
C3_Witness ==
    /\ call.op = "FindBestFilterForExtension"
    /\ call.ext = s_txt
    /\ s_ioFilters = <<1, 3, 2>>
    /\ call.result = 3

\* C4: UnregisterAll calls unregister() once on every held filter, in insertion
\* order and while the registry still holds them all, then leaves the registry
\* empty; on an empty registry it calls no hook and leaves it empty.
C4_UnregisterAll ==
    [][ call'.op = "UnregisterAll" =>
          /\ call'.unregister =
                [i \in 1..Len(s_ioFilters) |->
                    [filter |-> s_ioFilters[i], registered |-> Len(s_ioFilters)]]
          /\ \A f \in Range(s_ioFilters) :
                Cardinality({i \in 1..Len(call'.unregister) :
                                call'.unregister[i].filter = f}) = 1
          /\ s_ioFilters' = <<>> ]_vars

\* C4 witness: UnregisterAll has run on a registry of three filters.
C4_Witness ==
    /\ call.op = "UnregisterAll"
    /\ Len(call.unregister) = 3
    /\ s_ioFilters = <<>>

(***************************************************************************)
(* Properties of LoadFromFile and of the session counter.                  *)
(***************************************************************************)
\* C5: LoadFromFile with a non-null filter on a path that does not exist returns
\* a null container with CC_FERR_CONSOLE_ERROR and does not call loadFile,
\* whatever the session counter is.
C5_MissingFile ==
    (call.op = "LoadFromFile" /\ call.filter # NULL
        /\ call.filename \notin ExistingFiles) =>
        /\ call.returned
        /\ call.container.null
        /\ call.result = "CC_FERR_CONSOLE_ERROR"
        /\ ~call.invoked

\* C5 witness: a missing file was asked for, with three filters registered, in a
\* session that had already made two filter calls.
C5_Witness ==
    /\ call.op = "LoadFromFile"
    /\ call.filter # NULL
    /\ call.filename = s_missing_asc
    /\ Len(s_ioFilters) = 3
    /\ s_sessionCounter = unsigned(2)

\* C6: when loadFile throws, typed or not, LoadFromFile returns normally with
\* CC_FERR_CONSOLE_ERROR and a null container, every child added before the
\* throw having been removed from the container.
C6_ThrowContained ==
    (call.op = "LoadFromFile" /\ call.thrown # "none") =>
        /\ call.returned
        /\ call.escaped = "none"
        /\ call.result = "CC_FERR_CONSOLE_ERROR"
        /\ call.removed = call.added
        /\ call.container.null

\* C6 witness: loadFile threw something that is no std::exception after adding
\* three children.
C6_Witness ==
    /\ call.op = "LoadFromFile"
    /\ call.thrown = "other"
    /\ Len(call.added) = 3
    /\ call.container.null

\* C7: when loadFile returns without throwing and the container has no child,
\* LoadFromFile returns null with exactly the code loadFile returned; no caller
\* receives a container without children.
C7_EmptyResultIsNull ==
    /\ (call.op = "LoadFromFile" /\ call.invoked /\ call.thrown = "none"
          /\ call.added = <<>>) =>
            /\ call.returned
            /\ call.container.null
            /\ call.result = call.code
    /\ (call.op = "LoadFromFile" /\ call.returned /\ ~call.container.null) =>
            Len(call.container.children) > 0

\* C7 witness: loadFile returned CC_FERR_NO_ERROR and added nothing.
C7_Witness ==
    /\ call.op = "LoadFromFile"
    /\ call.invoked
    /\ call.thrown = "none"
    /\ call.added = <<>>
    /\ call.result = "CC_FERR_NO_ERROR"

\* C8 as stated: a load passes sessionStart == true to the filter exactly when it
\* is the first LoadFromFile call since the last reset (or since start).
C8_FirstLoadStartsSession ==
    (call.op = "LoadFromFile" /\ call.invoked) => (call.passed = (loadCalls = 1))

\* C8 amended: as long as the counter has been incremented only by loads since
\* the last reset (or since start), a load that reaches the filter call passes
\* sessionStart == true exactly when it is the first load since then to reach the
\* filter call, whatever the earlier filter calls returned or threw;
\* loadParameters.sessionStart holds the value passed.
C8_FirstFilterCallStartsSession ==
    (call.op = "LoadFromFile" /\ call.invoked /\ ~extraIncrements) =>
        /\ call.passed = (filterCalls = 1)
        /\ loadParameters.sessionStart = call.passed

\* C8 witness: the third load of a session, the second to reach its filter, was
\* given sessionStart == false.
C8_Witness ==
    /\ call.op = "LoadFromFile"
    /\ call.invoked
    /\ ~call.passed
    /\ ~extraIncrements
    /\ loadCalls = 3
    /\ filterCalls = 2

\* C9 as stated: the session counter equals the number of LoadFromFile calls made
\* since the last reset (or since start), those that fail included.
C9_CounterCountsLoads ==
    s_sessionCounter = unsigned(loadCalls)

\* C9 amended: as long as the counter has been incremented only by loads since
\* the last reset (or since start), it equals the number of LoadFromFile calls
\* since then that reached the filter call, those whose filter returned an error
\* or threw included.
C9_CounterCountsFilterCalls ==
    ~extraIncrements => s_sessionCounter = unsigned(filterCalls)

\* C9 witness: three loads since the reset, one refused before the filter call,
\* the last one ended by an exception of the filter.
C9_Witness ==
    /\ call.op = "LoadFromFile"
    /\ call.thrown # "none"
    /\ ~extraIncrements
    /\ loadCalls = 3
    /\ filterCalls = 2
    /\ s_sessionCounter = unsigned(2)

\* the call kept in call is a load that has given back a container
loadedContainer ==
    /\ call.op = "LoadFromFile"
    /\ call.returned
    /\ ~call.container.null
\* "<file name> (<absolute directory>)"
expectedRootName(filename) ==
    fileName(filename) \o <<" ", "(">> \o absolutePath(filename) \o <<")">>
\* C19 as stated: the container a load gives back is named "<file name>
\* (<absolute directory>)", a child whose name began with "unnamed" has this
\* leading token, and nothing else of its name, replaced by the base name of the
\* file, and the other children have the names the filter gave them.
C19_LeadingTokenOnly ==
    loadedContainer =>
        /\ call.container.name = expectedRootName(call.filename)
        /\ Len(call.container.children) = Len(call.added)
        /\ \A i \in 1..Len(call.added) :
              call.container.children[i] =
                  IF startsWith(call.added[i], s_unnamed)
                  THEN baseName(call.filename)
                       \o SubSeq(call.added[i], Len(s_unnamed) + 1,
                                 Len(call.added[i]))
                  ELSE call.added[i]

\* C19: the container a load gives back is named "<file name> (<absolute
\* directory>)", a child whose name began with "unnamed" has every occurrence of
\* "unnamed" in its name replaced by the base name of the file, and the other
\* children have the names the filter gave them, "unnamed" inside them included.
C19_Renaming ==
    loadedContainer =>
        /\ call.container.name = expectedRootName(call.filename)
        /\ Len(call.container.children) = Len(call.added)
        /\ \A i \in 1..Len(call.added) :
              call.container.children[i] =
                  IF startsWith(call.added[i], s_unnamed)
                  THEN replace(call.added[i], s_unnamed, baseName(call.filename))
                  ELSE call.added[i]

\* a load of "/data/scan.tar.bin" has given back the container
\* "scan.tar.bin (/data)" with the children "scan_scan", "cloud", "my_unnamed"
C19_Witness ==
    /\ loadedContainer
    /\ call.filename = s_data_scan_tar_bin
    /\ call.added = <<s_unnamed_unnamed, s_cloud, s_my_unnamed>>
    /\ call.container.name =
          <<"s", "c", "a", "n", ".", "t", "a", "r", ".", "b", "i", "n", " ",
            "(", "/", "d", "a", "t", "a", ")">>
    /\ call.container.children =
          << <<"s", "c", "a", "n", "_", "s", "c", "a", "n">>, s_cloud,
             s_my_unnamed >>

\* C20: a load that has called loadFile gives back a container exactly when the
\* container has a child after the call (children added and not removed by a
\* catch handler), whatever the result is: with a code other than
\* CC_FERR_NO_ERROR returned by loadFile and children left, the load returns
\* this code and the renamed container.
C20_ContainerIffChildren ==
    (call.op = "LoadFromFile" /\ call.invoked) =>
        /\ call.returned
        /\ ~call.container.null <=> (call.added # <<>> /\ call.removed = <<>>)
        /\ ~call.container.null => Len(call.container.children) >= 1
        /\ (call.thrown = "none" /\ call.added # <<>>) =>
              /\ call.result = call.code
              /\ ~call.container.null
              /\ call.container.name = expectedRootName(call.filename)

\* a load whose filter returned CC_FERR_READING and left two children has
\* returned CC_FERR_READING and the container with the children renamed
C20_Witness ==
    /\ call.op = "LoadFromFile"
    /\ call.invoked
    /\ call.code = "CC_FERR_READING"
    /\ call.result = "CC_FERR_READING"
    /\ call.filename = s_scan_asc
    /\ ~call.container.null
    /\ call.container.children =
          << <<"s", "c", "a", "n">>,
             <<"s", "c", "a", "n", "_", "c", "l", "o", "u", "d">> >>

(***************************************************************************)
(* Properties of HandleGlobalShift.                                        *)
(***************************************************************************)
\* C10: once a HandleGlobalShift call has stored its shift in loadParameters
\* (shift applied, apply-to-all), every call with these loadParameters that
\* begins later returns in Pshift and preserveCoordinateShift the stored shift
\* vector and the stored preserve-on-save flag, whatever the point and whatever
\* Handle answers.
C10_StoredShiftReused ==
    [][ (call'.op = "HandleGlobalShift" /\ call'.later) =>
          /\ call'.Pshift = loadParameters.coordinatesShift.value
          /\ call'.preserveCoordinateShift = loadParameters.preserveShiftOnSave
      ]_vars


\* C11: once a call has stored an active shift in loadParameters (enabled flag
\* true with a shift vector), no HandleGlobalShift call that begins later with
\* these loadParameters, alone or while another call is under way, writes a
\* different coordinate into the shift vector.
C11_ActiveShiftNeverChanges ==
    [][ \A c \in ShiftCallers :
          (/\ shiftCalls[c].later
           /\ shiftCalls[c].pc = "line 464"
           /\ shiftCalls'[c] # shiftCalls[c]) =>
              loadParameters'.coordinatesShift.value
                  = loadParameters.coordinatesShift.value
      ]_vars


\* the store that line 463, 464 or 465 of a call makes in loadParameters
storeOf(locals) ==
    CASE locals.pc = "line 463" ->
            [loadParameters EXCEPT !.coordinatesShiftEnabled.value = TRUE]
      [] locals.pc = "line 464" ->
            [loadParameters EXCEPT
                !.coordinatesShift.value[locals.i] = locals.Pshift[locals.i]]
      [] locals.pc = "line 465" ->
            [loadParameters EXCEPT
                !.preserveShiftOnSave = locals.preserveCoordinateShift]
      [] OTHER -> loadParameters

\* C17: a step of a HandleGlobalShift call changes loadParameters only when it is
\* a store of a call whose Handle was called and returned true with applyAll set,
\* loadParameters having both pointers: the enabled flag is set to true, the
\* shift and the preserve flag to those Handle returned.  A call that returns
\* has made these stores exactly when its Handle returned true with applyAll and
\* both pointers are there; with a PointCoordinateType of 8 bytes or more Handle
\* is not called, the result is false and nothing is stored.
C17_HandleGlobalShiftFrame ==
    [][ /\ loadParameters' # loadParameters =>
            \E c \in ShiftCallers :
                /\ shiftCalls'[c] # shiftCalls[c]
                /\ shiftCalls[c].result
                /\ shiftCalls[c].applyAll
                /\ sizeofPointCoordinateType < 8
                /\ ~loadParameters.coordinatesShiftEnabled.null
                /\ ~loadParameters.coordinatesShift.null
                /\ loadParameters' = storeOf(shiftCalls[c])
        /\ call'.op = "HandleGlobalShift" =>
            /\ call'.persisted =
                  (/\ call'.result
                   /\ call'.applyAll
                   /\ ~loadParameters.coordinatesShiftEnabled.null
                   /\ ~loadParameters.coordinatesShift.null)
            /\ call'.persisted =>
                  /\ loadParameters'.coordinatesShiftEnabled.value
                  /\ loadParameters'.preserveShiftOnSave
                        = call'.preserveCoordinateShift
            /\ sizeofPointCoordinateType >= 8 =>
                  /\ ~call'.handled
                  /\ ~call'.result
                  /\ loadParameters' = loadParameters
      ]_vars

\* a call has stored the shift (-1000, 0, 0) that Handle returned with applyAll
C17_Witness ==
    /\ call.op = "HandleGlobalShift"
    /\ call.result /\ call.applyAll /\ call.persisted
    /\ call.Pshift = <<-1000, 0, 0>>
    /\ ~call.preserveCoordinateShift
    /\ loadParameters.coordinatesShiftEnabled.value
    /\ loadParameters.coordinatesShift.value = <<-1000, 0, 0>>
    /\ ~loadParameters.preserveShiftOnSave

(***************************************************************************)
(* Properties of LoadFromFile with a format identifier.                    *)
(***************************************************************************)
\* the first filter of the registry that has the identifier among its import
\* identifiers, NULL when there is none or when the identifier is empty (line 139)
firstImporter(fileFilter) ==
    LET S == {i \in 1..Len(s_ioFilters) : fileFilter \in ImportIds(s_ioFilters[i])}
    IN  IF fileFilter = "" \/ S = {} THEN NULL ELSE s_ioFilters[Min(S)]
\* lines 281-290: the first filter of the registry that can load the extension
\* of the path, NULL when the path has no extension (line 283)
firstLoader(filename) ==
    LET S == {i \in 1..Len(s_ioFilters) :
                 canLoadExtension(s_ioFilters[i], toUpper(suffix(filename)))}
    IN  IF S = {} \/ suffix(filename) = <<>> THEN NULL ELSE s_ioFilters[Min(S)]
\* the call kept in call is a LoadFromFile call with a format identifier
isLoadWithFileFilter ==
    call.op = "LoadFromFile" /\ "fileFilter" \in DOMAIN call

\* C16: a load by path is made with the first filter that imports the identifier
\* when an identifier is given, whatever the extension of the path, and with the
\* first filter that can load the extension when none is given; when there is no
\* such filter the call returns null with CC_FERR_CONSOLE_ERROR and no loadFile
\* call is made; otherwise the call is the load with the filter found, which
\* calls loadFile when the file exists.
C16_LoadByPathResolution ==
    isLoadWithFileFilter =>
        LET expected == IF call.fileFilter # "" THEN firstImporter(call.fileFilter)
                        ELSE firstLoader(call.filename)
        IN  /\ call.filter = expected
            /\ expected = NULL =>
                  /\ call.returned
                  /\ call.container.null
                  /\ call.result = "CC_FERR_CONSOLE_ERROR"
                  /\ ~call.invoked
                  /\ Len(call.log) = 1
                  /\ call.log[1][1] = "Error"
            /\ expected # NULL =>
                  /\ call.invoked = exists(call.filename)
                  /\ call.returned

\* a load of "scan.asc" under the identifier of BIN has been made with the BIN
\* filter, not with the filter of the extension
C16_Witness ==
    /\ isLoadWithFileFilter
    /\ call.filename = s_scan_asc
    /\ call.fileFilter = "BIN (*.bin)"
    /\ call.filter = 1
    /\ call.invoked
    /\ ~call.container.null

(***************************************************************************)
(* Properties of LoadFromFile called from several threads.                 *)
(***************************************************************************)
\* C12: the loads that different threads have made since the last reset have
\* obtained distinct values of the session counter, and at most one of them has
\* passed sessionStart == true to its filter.
C12_DistinctCounterValues ==
    \A t, u \in Threads :
        (/\ t # u
         /\ threads[t].sinceReset /\ threads[t].obtained
         /\ threads[u].sinceReset /\ threads[u].obtained) =>
            /\ threads[t].sessionCounter # threads[u].sessionCounter
            /\ ~(threads[t].passed /\ threads[u].passed)


(***************************************************************************)
(* Properties of SaveToFile.                                               *)
(***************************************************************************)
\* the call kept in call is a SaveToFile call
isSave == call.op = "SaveToFile"
\* its arguments pass the checks of lines 310 and 346-354
validSave == isSave /\ ~call.entitiesNull /\ call.filename # <<>> /\ call.filter # NULL
\* no filter of the registry has the identifier among its export identifiers
noExportFilter(fileFilter) ==
    \A i \in 1..Len(s_ioFilters) : fileFilter \notin ExportIds(s_ioFilters[i])
\* the file name a save to filename with filter f is to write
expectedSaveName(filename, f) ==
    IF suffix(filename) = <<>> THEN filename \o <<".">> \o getDefaultExtension(f)
    ELSE filename

\* C13: whatever operation of the filter throws while SaveToFile runs, SaveToFile
\* returns to its caller, with CC_FERR_CONSOLE_ERROR.
C13_SaveThrowContained ==
    (isSave /\ call.thrown # "none") =>
        /\ call.returned
        /\ ~call.escaped
        /\ call.result = "CC_FERR_CONSOLE_ERROR"

\* C14: every valid SaveToFile call invokes filter->saveToFile exactly
\* once, with the path plus '.' and the default extension when the path has no
\* extension and with the path as given otherwise.
C14_SavePathEveryValidCall ==
    validSave =>
        /\ call.invoked = 1
        /\ call.passed = expectedSaveName(call.filename, call.filter)

\* C15 as stated: SaveToFile returns CC_FERR_BAD_ARGUMENT whenever entities is
\* null, the path is empty, the filter is null or the identifier is empty, and
\* CC_FERR_UNKNOWN_FILE whenever a non-empty identifier is exported by no
\* registered filter; saveToFile is not invoked in any of these cases.
C15_SaveShortCircuitAnyOrder ==
    /\ (/\ isSave
        /\ \/ call.entitiesNull
           \/ call.filename = <<>>
           \/ (call.by = "filter" /\ call.filter = NULL)
           \/ (call.by = "fileFilter" /\ call.fileFilter = ""))
       => (call.result = "CC_FERR_BAD_ARGUMENT" /\ call.invoked = 0)
    /\ (/\ isSave
        /\ call.by = "fileFilter"
        /\ call.fileFilter # ""
        /\ noExportFilter(call.fileFilter))
       => (call.result = "CC_FERR_UNKNOWN_FILE" /\ call.invoked = 0)

\* C15: SaveToFile with a filter returns CC_FERR_BAD_ARGUMENT when entities is
\* null, the path is empty or the filter is null.  SaveToFile with an identifier
\* looks at the identifier first: CC_FERR_BAD_ARGUMENT when it is empty,
\* CC_FERR_UNKNOWN_FILE when it is exported by no registered filter (whatever
\* entities and the path are), and CC_FERR_BAD_ARGUMENT when it resolves and
\* entities is null or the path is empty.  saveToFile is invoked in none of
\* these cases.
C15_SaveShortCircuit ==
    /\ (/\ isSave
        /\ call.by = "filter"
        /\ (call.entitiesNull \/ call.filename = <<>> \/ call.filter = NULL))
       => (call.result = "CC_FERR_BAD_ARGUMENT" /\ call.invoked = 0
           /\ call.returned)
    /\ (isSave /\ call.by = "fileFilter" /\ call.fileFilter = "")
       => (call.result = "CC_FERR_BAD_ARGUMENT" /\ call.invoked = 0
           /\ call.returned)
    /\ (/\ isSave
        /\ call.by = "fileFilter"
        /\ call.fileFilter # ""
        /\ noExportFilter(call.fileFilter))
       => (call.result = "CC_FERR_UNKNOWN_FILE" /\ call.invoked = 0
           /\ call.returned)
    /\ (/\ isSave
        /\ call.by = "fileFilter"
        /\ call.fileFilter # ""
        /\ ~noExportFilter(call.fileFilter)
        /\ (call.entitiesNull \/ call.filename = <<>>))
       => (call.result = "CC_FERR_BAD_ARGUMENT" /\ call.invoked = 0
           /\ call.returned)

\* with filters registered, a save of null entities under an identifier that no
\* filter exports has returned CC_FERR_UNKNOWN_FILE
C15_Witness ==
    /\ isSave
    /\ Len(s_ioFilters) = 3
    /\ call.by = "fileFilter"
    /\ call.entitiesNull
    /\ call.fileFilter = "TXT (*.txt)"
    /\ call.result = "CC_FERR_UNKNOWN_FILE"
    /\ call.invoked = 0


(***************************************************************************)
(* Properties of the messages of loads and saves.                          *)
(***************************************************************************)
\* a log entry is the message of the outcome: the Print of a success or what
\* DisplayErrorMessage sends; the other entries are the warnings of the catch
\* handlers
isOutcomeMessage(entry) == entry[1] = "Print" \/ Len(entry) = 4
\* the call kept in call has called loadFile or saveToFile
reachedFilterCall ==
    \/ (call.op = "LoadFromFile" /\ call.invoked)
    \/ (call.op = "SaveToFile" /\ call.invoked = 1)

\* C18: a load or save that has called the filter has sent exactly one outcome
\* message, as the last thing it logged: a Print and no diagnostic when the
\* result is CC_FERR_NO_ERROR, one diagnostic as a warning when it is
\* CC_FERR_CANCELED_BY_USER, one diagnostic as an error for every other code; what
\* it logged before is only the warnings of a caught exception.
C18_OneOutcomeMessage ==
    reachedFilterCall =>
        LET n == Len(call.log)
        IN  /\ call.returned
            /\ call.result \in ErrorCodes
            /\ n >= 1
            /\ isOutcomeMessage(call.log[n])
            /\ \A i \in 1..(n - 1) :
                  /\ ~isOutcomeMessage(call.log[i])
                  /\ call.log[i][1] = "Warning"
                  /\ call.code = "thrown"
            /\ call.log[n][1] =
                  CASE call.result = "CC_FERR_NO_ERROR" -> "Print"
                    [] call.result = "CC_FERR_CANCELED_BY_USER" -> "Warning"
                    [] OTHER -> "Error"
            /\ call.result # "CC_FERR_NO_ERROR" =>
                  /\ Len(call.log[n]) = 4
                  /\ call.log[n][3] = (IF call.op = "LoadFromFile"
                                       THEN "loading" ELSE "saving")

\* a save whose filter returned CC_FERR_CANCELED_BY_USER has logged one warning
C18_Witness ==
    /\ call.op = "SaveToFile"
    /\ call.invoked = 1
    /\ call.result = "CC_FERR_CANCELED_BY_USER"
    /\ Len(call.log) = 1
    /\ call.log[1][1] = "Warning"

=============================================================================
